---- MODULE Spec2Model ----
(***************************************************************************)
(* Model of package telemetry (mc-telemetry): the driver registry, the     *)
(* process-wide configuration, Start, and the TransactionContainer that    *)
(* fans every operation out to the backend transactions of the active      *)
(* drivers.                                                                *)
(*                                                                         *)
(* Drivers and backend transactions are external collaborators.  Each      *)
(* call on one may succeed or return an error (chosen with \E), and a      *)
(* backend transaction is modelled as a fake that counts the lifecycle     *)
(* calls it receives and remembers the last process id it was given.       *)
(* A Go map is iterated in an unspecified order: every broadcast draws its *)
(* order from the permutations of the container's keys.                    *)
(*                                                                         *)
(* The application follows the documented usage: it holds a container in a *)
(* variable (a slot), uses it, calls Done once and lets it go out of scope *)
(* before it starts the next transaction in that slot; it registers        *)
(* drivers and sets the configuration while it holds no container.  These  *)
(* conditions on the application are conjoined in Next, not in the actions *)
(* that model the package.                                                 *)
(*                                                                         *)
(* Spec is the application that registers drivers, starts transactions,    *)
(* sets process ids and starts segments.  OpsSpec, SegmentSpec and         *)
(* TraceSpec are applications that have registered their drivers and use   *)
(* the other container operations; ErrorWrapperSpec is an application that *)
(* uses an ErrorWrapper of its own.  ConcurrentSpec runs the broadcasts of *)
(* two goroutines one loop iteration at a time; FailureSpec goes on using  *)
(* a container whatever its backends answer; IsolationSpec holds two       *)
(* containers and reconfigures the package while it does; RetargetSpec     *)
(* changes the trace driver while it holds a container.                    *)
(***************************************************************************)
EXTENDS Integers, Sequences, FiniteSets, TLC

\* ---------------------------------------------------------------- bounds
MaxLoaded   == 2    \* longest list passed to SetDriver
MaxSegments == 2    \* uuid.NewString calls in one run of the process
MaxAdds     == 4    \* Add calls on one ErrorWrapper

DriverNames      == {"local", "apm"}
Drivers          == {"d1", "d2"}
ProcessIDs       == {"p-1", "p-2"}
TransactionNames == {"checkout"}
SegmentNames     == {"charge-card"}
Slots            == {1}
TxIds            == 1..(MaxLoaded * Cardinality(Slots))

NoDriver      == ""  \* registeredDriver[name] miss (ok = false)
NoTransaction == 0   \* tc.transactions[name] miss (ok = false)
NoProcessID   == ""  \* the backend has received no process id yet

TelemetryDriverError == "Telemetry error in driver: "

\* the lifecycle calls a backend transaction counts
CountedOps == {"Start", "Done", "Erase"}

VARIABLES
    registeredDriver,  \* name -> Driver, NoDriver where the map has no entry
    loadedDriver,      \* the active driver list
    traceDriver,       \* the trace driver name ("" until set)
    backend,           \* the Transactions the drivers have created, by identity
    containers,        \* per slot, the TransactionContainer the last Start returned
    phase,             \* per slot: "none", "live" (returned by Start) or "done" (Done called)
    uuids,             \* UUIDs generated so far
    segmentIDs,        \* per slot, the segment ids SegmentStart has returned, in order
    exited,            \* log.Fatalf or a panic has ended the process
    lastCall,          \* the last call of the application: its arguments, its result and the backend calls it made, in order
    errorWrapper,      \* the errors field of an ErrorWrapper the application holds
    added,             \* history: the errors passed to Add on that ErrorWrapper, in call order
    frames,            \* per goroutine, the broadcast it is executing: its arguments, its locals, the backend calls made so far
    failed             \* history: per slot, the backends whose SetTrace has returned an error to a tc.SetTrace call of the application

vars == <<registeredDriver, loadedDriver, traceDriver, backend, containers,
          phase, uuids, segmentIDs, exited, lastCall, errorWrapper, added, frames, failed>>

\* ---------------------------------------------------------------- helpers
Perms(S) == {s \in [1..Cardinality(S) -> S] : \A i, j \in 1..Cardinality(S) : s[i] = s[j] => i = j}

SeqsUpTo(S, n) == UNION {[1..k -> S] : k \in 0..n}

Range(seq) == {seq[i] : i \in DOMAIN seq}

\* ---------------------------------------------------------------- errors
\* An error value: its dynamic type, the words of its message, the errors it
\* exposes through Unwrap, and the error it keeps in an unexported field.
Nil == [type |-> "nil", msg |-> <<>>, wraps |-> <<>>, err |-> <<>>]

\* an error returned by a driver or a backend transaction
BackendError(op) == [type |-> "errorString", msg |-> <<"backend", op>>, wraps |-> <<>>, err |-> <<>>]

\* fmt.Errorf with %w: the message names the driver, Unwrap yields the cause
ErrorfWrap(driverName, fn, cause) ==
    [type |-> "wrapError", msg |-> <<TelemetryDriverError, driverName, fn>>,
     wraps |-> <<cause>>, err |-> <<>>]

\* fmt.Errorf without %w
ErrTraceDriverNotRegistered(name) ==
    [type |-> "errorString",
     msg |-> <<"provided telemetry trace driver is not registered. Trace driver name: ", name>>,
     wraps |-> <<>>, err |-> <<>>]

\* the non-nil errors of a list, in order
NonNil(errs) == SelectSeq(errs, LAMBDA e : e # Nil)

\* errors.Join: nil values are discarded, the result is nil when none is left;
\* Unwrap() []error yields every joined error, in order
Join(errs) ==
    IF NonNil(errs) = <<>> THEN Nil
    ELSE [type |-> "joinError", msg |-> <<>>, wraps |-> NonNil(errs), err |-> <<>>]

\* a slip: the error is wrapped with fmt.Errorf like the other errors of Start
ErrorProcessIDErrorf(e) ==
    [type |-> "wrapError", msg |-> <<"ProcessID error. Err: ", "", "">>, wraps |-> <<e>>, err |-> <<>>]

\* ErrorProcessID{err: e}: the field is unexported, the type has no Unwrap
\* method, and Error() formats e with %w in Sprintf (not Errorf), which
\* prints a bad-verb marker instead of e's message.
ErrorProcessID(e) ==
    [type |-> "ErrorProcessID", msg |-> <<"ProcessID error. Err: ", "%!w">>, wraps |-> <<>>, err |-> <<e>>]

\* ErrorWrapper
ErrorWrapperAdd(ew, e) == Append(ew, e)
\* a slip: the first error wins
ErrorWrapperErrorFirst(ew) == IF Len(ew) = 0 THEN Nil ELSE ew[1]

\* ew.Error()
ErrorWrapperError(ew) == IF Len(ew) = 0 THEN Nil ELSE Join(ew)

\* What a caller can enumerate from an error: the list of a joined error,
\* looking through single-error Unwrap chains (errors.Unwrap).
RECURSIVE Decompose(_)
Decompose(e) ==
    IF e.type = "joinError" THEN e.wraps
    ELSE IF Len(e.wraps) = 1 THEN Decompose(e.wraps[1])
    ELSE <<e>>

\* ---------------------------------------------------------------- backends
\* slot: the slot of the Start that created the transaction (0: the id is unused)
FreeTransaction ==
    [slot |-> 0, name |-> "", processID |-> NoProcessID, count |-> [op \in CountedOps |-> 0]]

NewTransaction(slot, driverName) == [FreeTransaction EXCEPT !.slot = slot, !.name = driverName]

\* one call made on a driver (tx = NoTransaction) or on a backend transaction:
\* the driver's name, the Driver value (InitializeTransaction only), the
\* operation, its string argument, its segment id, and whether it succeeded
Call(driverName, impl, tx, op, arg, id, ok) ==
    [driver |-> driverName, impl |-> impl, tx |-> tx, op |-> op, arg |-> arg, id |-> id, ok |-> ok]

Receive(t, c) ==
    [t EXCEPT !.count = [op \in CountedOps |-> IF op = c.op THEN @[op] + 1 ELSE @[op]],
              !.processID = IF c.op = "SetProcessID" THEN c.arg ELSE @]

RECURSIVE Record(_, _)
Record(heap, calls) ==
    IF calls = <<>> THEN heap
    ELSE LET c == Head(calls) IN
         Record(IF c.tx = NoTransaction THEN heap ELSE [heap EXCEPT ![c.tx] = Receive(@, c)],
                Tail(calls))

\* lastCall after a call that involves no container (the configuration setters)
NoCall == [op |-> "", tc |-> 0, args |-> <<>>, err |-> Nil, ret |-> 0, calls |-> <<>>]

\* the application holds no container
Idle == \A c \in Slots : phase[c] = "none"

\* ---------------------------------------------------------------- registry
\* a slip: a name that is registered keeps its first driver
RegisterDriverFirstWins(name, driver) ==
    /\ ~exited
    /\ registeredDriver' = IF registeredDriver[name] = NoDriver
                           THEN [registeredDriver EXCEPT ![name] = driver]
                           ELSE registeredDriver
    /\ lastCall' = [NoCall EXCEPT !.op = "RegisterDriver", !.args = <<name, driver>>]
    /\ UNCHANGED <<loadedDriver, traceDriver, backend, containers, phase, uuids, segmentIDs, exited, errorWrapper, added, frames, failed>>

RegisterDriver(name, driver) ==
    /\ ~exited
    /\ registeredDriver' = [registeredDriver EXCEPT ![name] = driver]
    /\ lastCall' = [NoCall EXCEPT !.op = "RegisterDriver", !.args = <<name, driver>>]
    /\ UNCHANGED <<loadedDriver, traceDriver, backend, containers, phase, uuids, segmentIDs, exited, errorWrapper, added, frames, failed>>

\* a slip: a miss is logged (log.Printf) and a default driver is used
getDriverDefault(name) == IF registeredDriver[name] = NoDriver THEN "d1" ELSE registeredDriver[name]

\* getDriver(name): NoDriver stands for the miss, on which log.Fatalf ends the process
getDriver(name) == registeredDriver[name]

SetDriver(name) ==
    /\ ~exited
    /\ loadedDriver' = name
    /\ lastCall' = NoCall
    /\ UNCHANGED <<registeredDriver, traceDriver, backend, containers, phase, uuids, segmentIDs, exited, errorWrapper, added, frames, failed>>

SetTraceDriver(name) ==
    /\ ~exited
    /\ traceDriver' = name
    /\ lastCall' = NoCall
    /\ UNCHANGED <<registeredDriver, loadedDriver, backend, containers, phase, uuids, segmentIDs, exited, errorWrapper, added, frames, failed>>

\* ---------------------------------------------------------------- container
EmptyTransactions == [n \in DriverNames |-> NoTransaction]

Lookup(transactions, name) ==
    IF name \in DriverNames THEN transactions[name] ELSE NoTransaction

Keys(transactions) == {n \in DriverNames : transactions[n] # NoTransaction}

\* the identity of the next Transaction a driver creates
Fresh(heap) == CHOOSE i \in TxIds : heap[i].slot = 0 /\ \A j \in TxIds : heap[j].slot = 0 => i <= j

\* a slip: the transaction is stored under the trace driver's name
StoreUnderTraceDriver(transactions, driverName, t) ==
    IF traceDriver \in DOMAIN transactions THEN [transactions EXCEPT ![traceDriver] = t] ELSE transactions

\* transactionContainer.transactions[driverName] = t
Store(transactions, driverName, t) == [transactions EXCEPT ![driverName] = t]

\* a slip: a driver that fails to initialise is skipped (continue), the error
\* is returned after the loop
RECURSIVE InitLoopContinues(_, _, _, _, _)
InitLoopContinues(i, st, slot, name, failAt) ==
    IF i > Len(loadedDriver) THEN [st EXCEPT !.outcome = IF st.failed = "" THEN "ok" ELSE "initError"]
    ELSE LET driverName == loadedDriver[i]
             driver == registeredDriver[driverName]
         IN  IF driver = NoDriver
             THEN [st EXCEPT !.outcome = "fatal", !.failed = driverName]
             ELSE IF i = failAt
             THEN InitLoopContinues(i + 1,
                           [st EXCEPT !.failed = driverName,
                                      !.calls = Append(@, [driver |-> driverName, impl |-> driver, tx |-> NoTransaction,
                                                           op |-> "InitializeTransaction", arg |-> name, id |-> 0, ok |-> FALSE])],
                           slot, name, failAt)
             ELSE InitLoopContinues(i + 1,
                           [st EXCEPT !.backend[Fresh(st.backend)] = NewTransaction(slot, driverName),
                                      !.transactions = Store(@, driverName, Fresh(st.backend)),
                                      !.calls = Append(@, [driver |-> driverName, impl |-> driver, tx |-> NoTransaction,
                                                           op |-> "InitializeTransaction", arg |-> name, id |-> 0, ok |-> TRUE])],
                           slot, name, failAt)

\* The loop of Start over loadedDriver, from index i on.  failAt is the index
\* of the first driver whose InitializeTransaction returns an error.
\* outcome: "fatal" (getDriver ended the process), "initError", or "ok".
RECURSIVE InitLoop(_, _, _, _, _)
InitLoop(i, st, slot, name, failAt) ==
    IF i > Len(loadedDriver) THEN [st EXCEPT !.outcome = "ok"]
    ELSE LET driverName == loadedDriver[i]
             driver == getDriver(driverName)
         IN  IF driver = NoDriver
             THEN [st EXCEPT !.outcome = "fatal", !.failed = driverName]
             ELSE IF i = failAt
             THEN [st EXCEPT !.outcome = "initError", !.failed = driverName,
                             !.calls = Append(@, Call(driverName, driver, NoTransaction, "InitializeTransaction", name, 0, FALSE))]
             ELSE InitLoop(i + 1,
                           [st EXCEPT !.backend[Fresh(st.backend)] = NewTransaction(slot, driverName),
                                      !.transactions = Store(@, driverName, Fresh(st.backend)),
                                      !.calls = Append(@, Call(driverName, driver, NoTransaction, "InitializeTransaction", name, 0, TRUE))],
                           slot, name, failAt)

\* a slip: the lookup result is not checked, the zero value is passed on
CreateProcessIDUnchecked(transactions, minted, ok) ==
    LET val == Lookup(transactions, traceDriver) IN
    IF val = NoTransaction
    THEN [processID |-> NoProcessID, err |-> Nil, calls |-> <<>>]
    ELSE [processID |-> minted,
          err |-> IF ok THEN Nil ELSE ErrorfWrap(traceDriver, "CreateProcessID", BackendError("CreateProcessID")),
          calls |-> <<[driver |-> traceDriver, impl |-> "", tx |-> val, op |-> "CreateProcessID",
                       arg |-> minted, id |-> 0, ok |-> ok]>>]

\* a slip: a container without backends needs no process id
CreateProcessIDEmptyOk(transactions, minted, ok) ==
    LET val == Lookup(transactions, traceDriver) IN
    IF Keys(transactions) = {}
    THEN [processID |-> NoProcessID, err |-> Nil, calls |-> <<>>]
    ELSE IF val = NoTransaction
    THEN [processID |-> NoProcessID, err |-> ErrTraceDriverNotRegistered(traceDriver), calls |-> <<>>]
    ELSE [processID |-> minted,
          err |-> IF ok THEN Nil ELSE ErrorfWrap(traceDriver, "CreateProcessID", BackendError("CreateProcessID")),
          calls |-> <<[driver |-> traceDriver, impl |-> "", tx |-> val, op |-> "CreateProcessID",
                       arg |-> minted, id |-> 0, ok |-> ok]>>]

\* tc.CreateProcessID(): minted and ok are what the trace driver's backend returns
CreateProcessID(transactions, minted, ok) ==
    LET val == Lookup(transactions, traceDriver) IN
    IF val = NoTransaction
    THEN [processID |-> NoProcessID, err |-> ErrTraceDriverNotRegistered(traceDriver), calls |-> <<>>]
    ELSE [processID |-> minted,
          err |-> IF ok THEN Nil ELSE ErrorfWrap(traceDriver, "CreateProcessID", BackendError("CreateProcessID")),
          calls |-> <<Call(traceDriver, NoDriver, val, "CreateProcessID", minted, 0, ok)>>]

\* a slip: the broadcast returns at the first backend that fails
RECURSIVE SetProcessIDLoopStops(_, _, _, _, _, _)
SetProcessIDLoopStops(transactions, processID, order, fails, i, acc) ==
    IF i > Len(order) THEN acc
    ELSE LET driverName == order[i]
             ok == driverName \notin fails
             call == [driver |-> driverName, impl |-> "", tx |-> transactions[driverName],
                      op |-> "SetProcessID", arg |-> processID, id |-> 0, ok |-> ok]
         IN  IF ok
             THEN SetProcessIDLoopStops(transactions, processID, order, fails, i + 1,
                                        [calls |-> Append(acc.calls, call), ew |-> acc.ew])
             ELSE [calls |-> Append(acc.calls, call),
                   ew |-> Append(acc.ew, [type |-> "wrapError", msg |-> <<"Telemetry error in driver: ", driverName, "SetProcessID">>,
                                          wraps |-> <<>>, err |-> <<>>])]

\* tc.SetProcessID(processID): order is the map's iteration order, fails the
\* backends whose SetProcessID returns an error
RECURSIVE SetProcessIDLoop(_, _, _, _, _, _)
SetProcessIDLoop(transactions, processID, order, fails, i, acc) ==
    IF i > Len(order) THEN acc
    ELSE LET driverName == order[i]
             ok == driverName \notin fails
         IN  SetProcessIDLoop(transactions, processID, order, fails, i + 1,
                 [calls |-> Append(acc.calls, Call(driverName, NoDriver, transactions[driverName], "SetProcessID", processID, 0, ok)),
                  ew |-> IF ok THEN acc.ew
                         ELSE ErrorWrapperAdd(acc.ew, ErrorfWrap(driverName, "SetProcessID", BackendError("SetProcessID")))])

SetProcessID(transactions, processID, order, fails) ==
    LET r == SetProcessIDLoop(transactions, processID, order, fails, 1, [calls |-> <<>>, ew |-> <<>>])
    IN  [err |-> ErrorWrapperError(r.ew), calls |-> r.calls]

\* the last loop of Start: transaction.Start(name) on every backend
StartLoop(transactions, name, order) ==
    [i \in 1..Len(order) |-> Call(order[i], NoDriver, transactions[order[i]], "Start", name, 0, TRUE)]

\* the state Start begins with: an empty map, no call made
\* a slip: Start fills a map that an earlier Start has made
StartFramePackageMap ==
    [backend |-> backend, transactions |-> containers[CHOOSE c \in DOMAIN containers : TRUE].transactions,
     calls |-> <<>>, outcome |-> "", failed |-> ""]

StartFrame ==
    [backend |-> backend, transactions |-> EmptyTransactions, calls |-> <<>>, outcome |-> "", failed |-> ""]

\* a slip: the error path returns a zero container
AbortInitZeroContainer(st) ==
    [ret |-> TRUE, transactions |-> EmptyTransactions, backend |-> st.backend, calls |-> st.calls,
     err |-> ErrorfWrap(st.failed, "", BackendError("InitializeTransaction"))]

\* Start returns from inside its first loop: InitializeTransaction failed
AbortInit(st) ==
    [ret |-> TRUE, transactions |-> st.transactions, backend |-> st.backend, calls |-> st.calls,
     err |-> ErrorfWrap(st.failed, "", BackendError("InitializeTransaction"))]

\* a slip: the backends are started before the process id is propagated
StartResultStartsFirst(st, name, minted, mintOk, order, fails, order2) ==
    LET tc  == st.transactions
        cp  == CreateProcessID(tc, minted, mintOk)
        sp  == SetProcessID(tc, cp.processID, order, fails)
    IN  IF st.outcome = "fatal"
        THEN [ret |-> FALSE, transactions |-> tc, backend |-> st.backend, calls |-> st.calls, err |-> Nil]
        ELSE IF st.outcome = "initError"
        THEN AbortInit(st)
        ELSE IF cp.err # Nil
        THEN [ret |-> TRUE, transactions |-> tc, backend |-> st.backend, calls |-> st.calls \o cp.calls,
              err |-> ErrorProcessID(cp.err)]
        ELSE [ret |-> TRUE, transactions |-> tc, backend |-> st.backend,
              calls |-> st.calls \o cp.calls \o StartLoop(tc, name, order) \o sp.calls,
              err |-> IF sp.err # Nil THEN ErrorProcessID(sp.err) ELSE Nil]

\* one iteration order of a map with these keys
SomeOrder(S) == CHOOSE p \in Perms(S) : TRUE

\* a slip: the error of CreateProcessID is only logged, Start goes on with the
\* value it got
StartResultIgnoresMintError(st, name, minted, mintOk, order, fails, order2) ==
    LET tc  == st.transactions
        cp  == CreateProcessID(tc, minted, mintOk)
        sp  == SetProcessID(tc, cp.processID, SomeOrder(Keys(tc)), {})
    IN  IF st.outcome = "fatal"
        THEN [ret |-> FALSE, transactions |-> tc, backend |-> st.backend, calls |-> st.calls, err |-> Nil]
        ELSE IF st.outcome = "initError"
        THEN AbortInit(st)
        ELSE [ret |-> TRUE, transactions |-> tc, backend |-> st.backend,
              calls |-> st.calls \o cp.calls \o sp.calls \o StartLoop(tc, name, SomeOrder(Keys(tc))),
              err |-> Nil]

\* Start(name) after its first loop has left st: what it returns and the calls it makes.
\*   ret = FALSE: the process ended inside getDriver, nothing is returned.
StartResult(st, name, minted, mintOk, order, fails, order2) ==
    LET tc  == st.transactions
        cp  == CreateProcessID(tc, minted, mintOk)
        sp  == SetProcessID(tc, cp.processID, order, fails)
    IN  IF st.outcome = "fatal"
        THEN [ret |-> FALSE, transactions |-> tc, backend |-> st.backend, calls |-> st.calls, err |-> Nil]
        ELSE IF st.outcome = "initError"
        THEN AbortInit(st)
        ELSE IF cp.err # Nil
        THEN [ret |-> TRUE, transactions |-> tc, backend |-> st.backend, calls |-> st.calls \o cp.calls,
              err |-> ErrorProcessID(cp.err)]
        ELSE IF sp.err # Nil
        THEN [ret |-> TRUE, transactions |-> tc, backend |-> st.backend,
              calls |-> st.calls \o cp.calls \o sp.calls,
              err |-> ErrorProcessID(sp.err)]
        ELSE [ret |-> TRUE, transactions |-> tc, backend |-> st.backend,
              calls |-> st.calls \o cp.calls \o sp.calls \o StartLoop(tc, name, order2),
              err |-> Nil]

\* What the collaborators can answer during one Start.  An answer that Start
\* never asks for (the loop ended early, the trace driver has no backend, an
\* error came before) is not varied.
InitAnswers == 1..(Len(loadedDriver) + 1)

MintAnswers(st) ==
    IF st.outcome = "ok" /\ Lookup(st.transactions, traceDriver) # NoTransaction
    THEN ProcessIDs \X BOOLEAN
    ELSE {<<NoProcessID, TRUE>>}

SetAnswers(st, mint) ==
    IF st.outcome = "ok" /\ Lookup(st.transactions, traceDriver) # NoTransaction /\ mint[2]
    THEN Perms(Keys(st.transactions)) \X SUBSET Keys(st.transactions)
    ELSE {<<<<>>, {}>>}

StartAnswers(st, mint, set) ==
    IF st.outcome = "ok" /\ Lookup(st.transactions, traceDriver) # NoTransaction /\ mint[2] /\ set[2] = {}
    THEN Perms(Keys(st.transactions))
    ELSE {<<>>}

Start(c, name) ==
    /\ ~exited
    /\ phase[c] = "none"
    /\ \E failAt \in InitAnswers :
         LET st == InitLoop(1, StartFrame, c, name, failAt) IN
         \E mint \in MintAnswers(st) : \E set \in SetAnswers(st, mint) : \E order2 \in StartAnswers(st, mint, set) :
               LET r == StartResult(st, name, mint[1], mint[2], set[1], set[2], order2) IN
               /\ backend' = Record(r.backend, r.calls)
               /\ exited' = ~r.ret
               /\ containers' = [containers EXCEPT ![c] = [transactions |-> IF r.ret THEN r.transactions ELSE EmptyTransactions]]
               /\ phase' = [phase EXCEPT ![c] = IF r.ret THEN "live" ELSE "none"]
               /\ lastCall' = [op |-> "Start", tc |-> c, args |-> <<name>>, err |-> r.err, ret |-> 0, calls |-> r.calls]
    /\ UNCHANGED <<registeredDriver, loadedDriver, traceDriver, uuids, segmentIDs, errorWrapper, added, frames, failed>>

\* tc.SetProcessID(processID) called by the application
CallSetProcessID(c, processID) ==
    /\ ~exited
    /\ phase[c] = "live"
    /\ \E order \in Perms(Keys(containers[c].transactions)), fails \in SUBSET Keys(containers[c].transactions) :
         LET r == SetProcessID(containers[c].transactions, processID, order, fails) IN
         /\ backend' = Record(backend, r.calls)
         /\ lastCall' = [op |-> "SetProcessID", tc |-> c, args |-> <<processID>>, err |-> r.err, ret |-> 0, calls |-> r.calls]
    /\ UNCHANGED <<registeredDriver, loadedDriver, traceDriver, containers, phase, uuids, segmentIDs, exited, errorWrapper, added, frames, failed>>

\* uuid.NewString(): a version 4 UUID, taken to differ from every UUID generated before
NewString == uuids + 1

RECURSIVE SegmentStartLoop(_, _, _, _, _, _)
SegmentStartLoop(transactions, segmentID, name, order, fails, i) ==
    IF i > Len(order) THEN <<>>
    ELSE <<Call(order[i], NoDriver, transactions[order[i]], "SegmentStart", name, segmentID, order[i] \notin fails)>>
         \o SegmentStartLoop(transactions, segmentID, name, order, fails, i + 1)

\* a slip: the id is generated once and kept for later calls
SegmentStartResultKeepsID(transactions, name, order, fails) ==
    LET segmentID == 1 IN
    [segmentID |-> segmentID, calls |-> SegmentStartLoop(transactions, segmentID, name, order, fails, 1)]

\* tc.SegmentStart(name): the id it returns and the calls it makes
SegmentStartResult(transactions, name, order, fails) ==
    LET segmentID == NewString IN
    [segmentID |-> segmentID, calls |-> SegmentStartLoop(transactions, segmentID, name, order, fails, 1)]

SegmentStart(c, name) ==
    /\ ~exited
    /\ phase[c] = "live"
    /\ uuids < MaxSegments
    /\ \E order \in Perms(Keys(containers[c].transactions)), fails \in SUBSET Keys(containers[c].transactions) :
         LET r == SegmentStartResult(containers[c].transactions, name, order, fails) IN
         /\ backend' = Record(backend, r.calls)
         /\ segmentIDs' = [segmentIDs EXCEPT ![c] = Append(@, r.segmentID)]
         /\ lastCall' = [op |-> "SegmentStart", tc |-> c, args |-> <<name>>, err |-> Nil, ret |-> r.segmentID, calls |-> r.calls]
    /\ uuids' = uuids + 1
    /\ UNCHANGED <<registeredDriver, loadedDriver, traceDriver, containers, phase, exited, errorWrapper, added, frames, failed>>

\* a slip: a backend whose Done fails is skipped (continue) before its Erase
RECURSIVE DoneLoopSkipsErase(_, _, _, _)
DoneLoopSkipsErase(transactions, order, fails, i) ==
    IF i > Len(order) THEN <<>>
    ELSE (IF order[i] \in fails
          THEN <<[driver |-> order[i], impl |-> "", tx |-> transactions[order[i]], op |-> "Done", arg |-> "", id |-> 0, ok |-> FALSE]>>
          ELSE <<[driver |-> order[i], impl |-> "", tx |-> transactions[order[i]], op |-> "Done", arg |-> "", id |-> 0, ok |-> TRUE],
                 [driver |-> order[i], impl |-> "", tx |-> transactions[order[i]], op |-> "Erase", arg |-> "", id |-> 0, ok |-> TRUE]>>)
         \o DoneLoopSkipsErase(transactions, order, fails, i + 1)

\* tc.Done(): per backend, Done() and then Erase()
RECURSIVE DoneLoop(_, _, _, _)
DoneLoop(transactions, order, fails, i) ==
    IF i > Len(order) THEN <<>>
    ELSE <<Call(order[i], NoDriver, transactions[order[i]], "Done", "", 0, order[i] \notin fails),
           Call(order[i], NoDriver, transactions[order[i]], "Erase", "", 0, TRUE)>>
         \o DoneLoop(transactions, order, fails, i + 1)

Done(c) ==
    /\ ~exited
    /\ phase[c] = "live"
    /\ \E order \in Perms(Keys(containers[c].transactions)), fails \in SUBSET Keys(containers[c].transactions) :
         LET calls == DoneLoop(containers[c].transactions, order, fails, 1) IN
         /\ backend' = Record(backend, calls)
         /\ lastCall' = [op |-> "Done", tc |-> c, args |-> <<>>, err |-> Nil, ret |-> 0, calls |-> calls]
    /\ phase' = [phase EXCEPT ![c] = "done"]
    /\ UNCHANGED <<registeredDriver, loadedDriver, traceDriver, containers, uuids, segmentIDs, exited, errorWrapper, added, frames, failed>>

\* The deferred Done has run and the container goes out of scope: the slot is
\* empty again and the Transactions created for it are garbage.
Drop(c) ==
    /\ ~exited
    /\ phase[c] = "done"
    /\ phase' = [phase EXCEPT ![c] = "none"]
    /\ containers' = [containers EXCEPT ![c] = [transactions |-> EmptyTransactions]]
    /\ backend' = [i \in TxIds |-> IF backend[i].slot = c THEN FreeTransaction ELSE backend[i]]
    /\ segmentIDs' = [segmentIDs EXCEPT ![c] = <<>>]
    /\ failed' = [failed EXCEPT ![c] = {}]
    /\ lastCall' = NoCall
    /\ UNCHANGED <<registeredDriver, loadedDriver, traceDriver, uuids, exited, errorWrapper, added, frames>>

\* ---------------------------------------------------------------- broadcasts
TraceIDs       == {"t-1", "t-2"}
AttributeNames == {"customer"}
Messages       == {"token accepted"}

NoTrace    == ""             \* var trace string
NoSegment  == 0              \* the empty segment id: the log goes to the transaction itself
NilPointer == "nil pointer"  \* a nil *string

\* a nil *error
NilErrorPointer == [type |-> "nil pointer", msg |-> <<>>, wraps |-> <<>>, err |-> <<>>]

\* the errors an application passes to tc.Error, Nil being a nil error value
AppErrors == {Nil, [type |-> "errorString", msg |-> <<"card ", "declined">>, wraps |-> <<>>, err |-> <<>>]}

\* a run-time panic: it unwinds the caller and, not recovered, ends the process
RuntimePanic ==
    [type |-> "panic", msg |-> <<"invalid memory address or nil pointer dereference">>,
     wraps |-> <<>>, err |-> <<>>]

\* e.Error() of an error made with errors.New or fmt.Errorf: its message
RECURSIVE ErrorString(_)
ErrorString(words) == IF words = <<>> THEN "" ELSE Head(words) \o ErrorString(Tail(words))

\* a slip: the loop returns at the first backend that fails
RECURSIVE BroadcastLoopStops(_, _, _, _, _, _, _)
BroadcastLoopStops(transactions, op, arg, id, order, fails, i) ==
    IF i > Len(order) THEN <<>>
    ELSE <<[driver |-> order[i], impl |-> "", tx |-> transactions[order[i]], op |-> op, arg |-> arg,
            id |-> id, ok |-> order[i] \notin fails]>>
         \o (IF order[i] \in fails THEN <<>>
             ELSE BroadcastLoopStops(transactions, op, arg, id, order, fails, i + 1))

\* for driverName, transaction := range tc.transactions { err := transaction.op(...);
\* if err != nil { log.Printf(...) } }: the loop of AddTransactionAttribute,
\* AddSegmentAttribute, SegmentEnd, Info and Error
RECURSIVE BroadcastLoop(_, _, _, _, _, _, _)
BroadcastLoop(transactions, op, arg, id, order, fails, i) ==
    IF i > Len(order) THEN <<>>
    ELSE <<Call(order[i], NoDriver, transactions[order[i]], op, arg, id, order[i] \notin fails)>>
         \o BroadcastLoop(transactions, op, arg, id, order, fails, i + 1)

\* a call of a container operation that returns nothing and made these backend calls
Returned(c, op, args, calls) ==
    /\ backend' = Record(backend, calls)
    /\ lastCall' = [op |-> op, tc |-> c, args |-> args, err |-> Nil, ret |-> 0, calls |-> calls]
    /\ exited' = exited

\* a call of a container operation that panicked before it called a backend
Panicked(c, op, args) ==
    /\ backend' = backend
    /\ lastCall' = [op |-> op, tc |-> c, args |-> args, err |-> RuntimePanic, ret |-> 0, calls |-> <<>>]
    /\ exited' = TRUE

AddTransactionAttribute(c, name) ==
    /\ ~exited
    /\ phase[c] = "live"
    /\ \E order \in Perms(Keys(containers[c].transactions)), fails \in SUBSET Keys(containers[c].transactions) :
         Returned(c, "AddTransactionAttribute", <<name>>,
                  BroadcastLoop(containers[c].transactions, "AddTransactionAttribute", name, NoSegment, order, fails, 1))
    /\ UNCHANGED <<registeredDriver, loadedDriver, traceDriver, containers, phase, uuids, segmentIDs, errorWrapper, added, frames, failed>>

AddSegmentAttribute(c, segmentID, name) ==
    /\ ~exited
    /\ phase[c] = "live"
    /\ \E order \in Perms(Keys(containers[c].transactions)), fails \in SUBSET Keys(containers[c].transactions) :
         Returned(c, "AddSegmentAttribute", <<segmentID, name>>,
                  BroadcastLoop(containers[c].transactions, "AddSegmentAttribute", name, segmentID, order, fails, 1))
    /\ UNCHANGED <<registeredDriver, loadedDriver, traceDriver, containers, phase, uuids, segmentIDs, errorWrapper, added, frames, failed>>

SegmentEnd(c, segmentID) ==
    /\ ~exited
    /\ phase[c] = "live"
    /\ \E order \in Perms(Keys(containers[c].transactions)), fails \in SUBSET Keys(containers[c].transactions) :
         Returned(c, "SegmentEnd", <<segmentID>>,
                  BroadcastLoop(containers[c].transactions, "SegmentEnd", "", segmentID, order, fails, 1))
    /\ UNCHANGED <<registeredDriver, loadedDriver, traceDriver, containers, phase, uuids, segmentIDs, errorWrapper, added, frames, failed>>

\* tc.Info(segmentID, msg): the loop body reads *msg before it calls the backend
Info(c, segmentID, msg) ==
    /\ ~exited
    /\ phase[c] = "live"
    /\ IF Keys(containers[c].transactions) # {} /\ msg = NilPointer
       THEN Panicked(c, "Info", <<segmentID, msg>>)
       ELSE \E order \in Perms(Keys(containers[c].transactions)), fails \in SUBSET Keys(containers[c].transactions) :
              Returned(c, "Info", <<segmentID, msg>>,
                       BroadcastLoop(containers[c].transactions, "Info", msg, segmentID, order, fails, 1))
    /\ UNCHANGED <<registeredDriver, loadedDriver, traceDriver, containers, phase, uuids, segmentIDs, errorWrapper, added, frames, failed>>

\* tc.Error(segmentID, err): the loop body calls (*err).Error() before it calls
\* the backend; err is a nil pointer, or points to a nil or a non-nil error
Error(c, segmentID, err) ==
    /\ ~exited
    /\ phase[c] = "live"
    /\ IF Keys(containers[c].transactions) # {} /\ (err = NilErrorPointer \/ err = Nil)
       THEN Panicked(c, "Error", <<segmentID, err>>)
       ELSE \E order \in Perms(Keys(containers[c].transactions)), fails \in SUBSET Keys(containers[c].transactions) :
              Returned(c, "Error", <<segmentID, err>>,
                       BroadcastLoop(containers[c].transactions, "Error",
                                     ErrorString(err.msg),
                                     segmentID, order, fails, 1))
    /\ UNCHANGED <<registeredDriver, loadedDriver, traceDriver, containers, phase, uuids, segmentIDs, errorWrapper, added, frames, failed>>

\* a slip: the broadcast returns at the first backend that fails
RECURSIVE SetTraceLoopStops(_, _, _, _, _, _)
SetTraceLoopStops(transactions, trace, order, fails, i, acc) ==
    IF i > Len(order) THEN acc
    ELSE LET driverName == order[i]
             ok == driverName \notin fails
             call == [driver |-> driverName, impl |-> "", tx |-> transactions[driverName],
                      op |-> "SetTrace", arg |-> trace, id |-> 0, ok |-> ok]
         IN  IF ok
             THEN SetTraceLoopStops(transactions, trace, order, fails, i + 1,
                                    [calls |-> Append(acc.calls, call), ew |-> acc.ew])
             ELSE [calls |-> Append(acc.calls, call),
                   ew |-> Append(acc.ew, [type |-> "wrapError", msg |-> <<"Telemetry error in driver: ", driverName, "SetTrace">>,
                                          wraps |-> <<>>, err |-> <<>>])]

\* tc.SetTrace(trace): order is the map's iteration order, fails the backends
\* whose SetTrace returns an error
RECURSIVE SetTraceLoop(_, _, _, _, _, _)
SetTraceLoop(transactions, trace, order, fails, i, acc) ==
    IF i > Len(order) THEN acc
    ELSE LET driverName == order[i]
             ok == driverName \notin fails
         IN  SetTraceLoop(transactions, trace, order, fails, i + 1,
                 [calls |-> Append(acc.calls, Call(driverName, NoDriver, transactions[driverName], "SetTrace", trace, 0, ok)),
                  ew |-> IF ok THEN acc.ew
                         ELSE ErrorWrapperAdd(acc.ew, ErrorfWrap(driverName, "SetTrace", BackendError("SetTrace")))])

SetTrace(transactions, trace, order, fails) ==
    LET r == SetTraceLoop(transactions, trace, order, fails, 1, [calls |-> <<>>, ew |-> <<>>])
    IN  [err |-> ErrorWrapperError(r.ew), calls |-> r.calls]

\* a slip: the minted id is not returned when a SetTrace has failed
StartTracingResultDropsTrace(transactions, minted, ok, order, fails) ==
    LET val == Lookup(transactions, traceDriver)
        create == <<[driver |-> traceDriver, impl |-> "", tx |-> val, op |-> "CreateTrace", arg |-> minted, id |-> 0, ok |-> ok]>>
        st == SetTrace(transactions, minted, order, fails)
    IN  IF val = NoTransaction
        THEN [trace |-> NoTrace, err |-> ErrTraceDriverNotRegistered(traceDriver), calls |-> <<>>]
        ELSE IF ~ok
        THEN [trace |-> minted, err |-> ErrorfWrap(traceDriver, "CreateTrace", BackendError("CreateTrace")),
              calls |-> create]
        ELSE [trace |-> IF st.err = Nil THEN minted ELSE NoTrace, err |-> st.err, calls |-> create \o st.calls]

\* tc.StartTracing(): minted and ok are what the trace driver's backend
\* returns from CreateTrace
StartTracingResult(transactions, minted, ok, order, fails) ==
    LET val == Lookup(transactions, traceDriver)
        create == <<Call(traceDriver, NoDriver, val, "CreateTrace", minted, 0, ok)>>
        st == SetTrace(transactions, minted, order, fails)
    IN  IF val = NoTransaction
        THEN [trace |-> NoTrace, err |-> ErrTraceDriverNotRegistered(traceDriver), calls |-> <<>>]
        ELSE IF ~ok
        THEN [trace |-> minted, err |-> ErrorfWrap(traceDriver, "CreateTrace", BackendError("CreateTrace")),
              calls |-> create]
        ELSE [trace |-> minted, err |-> st.err, calls |-> create \o st.calls]

\* what the backends can answer during one StartTracing
CreateTraceAnswers(c) ==
    IF Lookup(containers[c].transactions, traceDriver) # NoTransaction
    THEN TraceIDs \X BOOLEAN
    ELSE {<<NoTrace, TRUE>>}

SetTraceAnswers(c, mint) ==
    IF Lookup(containers[c].transactions, traceDriver) # NoTransaction /\ mint[2]
    THEN Perms(Keys(containers[c].transactions)) \X SUBSET Keys(containers[c].transactions)
    ELSE {<<<<>>, {}>>}

StartTracing(c) ==
    /\ ~exited
    /\ phase[c] = "live"
    /\ \E mint \in CreateTraceAnswers(c) : \E set \in SetTraceAnswers(c, mint) :
         LET r == StartTracingResult(containers[c].transactions, mint[1], mint[2], set[1], set[2]) IN
         /\ backend' = Record(backend, r.calls)
         /\ lastCall' = [op |-> "StartTracing", tc |-> c, args |-> <<>>, err |-> r.err, ret |-> r.trace, calls |-> r.calls]
    /\ UNCHANGED <<registeredDriver, loadedDriver, traceDriver, containers, phase, uuids, segmentIDs, exited, errorWrapper, added, frames, failed>>

\* a slip: a backend whose SetTrace fails is deleted from the map
CallSetTraceDropsFailed(c, trace) ==
    /\ ~exited
    /\ phase[c] = "live"
    /\ \E order \in Perms(Keys(containers[c].transactions)), fails \in SUBSET Keys(containers[c].transactions) :
         LET r == SetTrace(containers[c].transactions, trace, order, fails) IN
         /\ backend' = Record(backend, r.calls)
         /\ failed' = [failed EXCEPT ![c] = @ \cup fails]
         /\ containers' = [containers EXCEPT ![c].transactions =
                              [n \in DriverNames |-> IF n \in fails THEN NoTransaction ELSE @[n]]]
         /\ lastCall' = [op |-> "SetTrace", tc |-> c, args |-> <<trace>>, err |-> r.err, ret |-> 0, calls |-> r.calls]
    /\ UNCHANGED <<registeredDriver, loadedDriver, traceDriver, phase, uuids, segmentIDs, exited, errorWrapper, added, frames>>

\* tc.SetTrace(trace) called by the application
CallSetTrace(c, trace) ==
    /\ ~exited
    /\ phase[c] = "live"
    /\ \E order \in Perms(Keys(containers[c].transactions)), fails \in SUBSET Keys(containers[c].transactions) :
         LET r == SetTrace(containers[c].transactions, trace, order, fails) IN
         /\ backend' = Record(backend, r.calls)
         /\ failed' = [failed EXCEPT ![c] = @ \cup fails]
         /\ lastCall' = [op |-> "SetTrace", tc |-> c, args |-> <<trace>>, err |-> r.err, ret |-> 0, calls |-> r.calls]
    /\ UNCHANGED <<registeredDriver, loadedDriver, traceDriver, containers, phase, uuids, segmentIDs, exited, errorWrapper, added, frames>>


\* a slip: the backend to ask is taken from the map, whatever the trace driver
TraceResultAnyBackend(transactions, trace, ok) ==
    IF Keys(transactions) = {}
    THEN [trace |-> NoTrace, err |-> ErrTraceDriverNotRegistered(traceDriver), calls |-> <<>>]
    ELSE LET n == CHOOSE k \in Keys(transactions) : TRUE IN
         [trace |-> IF ok THEN trace ELSE NoTrace,
          err |-> IF ok THEN Nil ELSE ErrorfWrap(n, "Trace", BackendError("Trace")),
          calls |-> <<[driver |-> n, impl |-> "", tx |-> transactions[n], op |-> "Trace", arg |-> trace, id |-> 0, ok |-> ok]>>]

\* tc.Trace(): trace and ok are what the trace driver's backend returns from Trace
TraceResult(transactions, trace, ok) ==
    LET val == Lookup(transactions, traceDriver) IN
    IF val = NoTransaction
    THEN [trace |-> NoTrace, err |-> ErrTraceDriverNotRegistered(traceDriver), calls |-> <<>>]
    ELSE [trace |-> IF ok THEN trace ELSE NoTrace,
          err |-> IF ok THEN Nil ELSE ErrorfWrap(traceDriver, "Trace", BackendError("Trace")),
          calls |-> <<Call(traceDriver, NoDriver, val, "Trace", trace, 0, ok)>>]

\* what the trace driver's backend can answer to Trace or CreateProcessID
AuthorityAnswers(c, values) ==
    IF Lookup(containers[c].transactions, traceDriver) # NoTransaction
    THEN values \X BOOLEAN
    ELSE {<<"", TRUE>>}

Trace(c) ==
    /\ ~exited
    /\ phase[c] = "live"
    /\ \E answer \in AuthorityAnswers(c, TraceIDs) :
         LET r == TraceResult(containers[c].transactions, answer[1], answer[2]) IN
         /\ backend' = Record(backend, r.calls)
         /\ lastCall' = [op |-> "Trace", tc |-> c, args |-> <<>>, err |-> r.err, ret |-> r.trace, calls |-> r.calls]
    /\ UNCHANGED <<registeredDriver, loadedDriver, traceDriver, containers, phase, uuids, segmentIDs, exited, errorWrapper, added, frames, failed>>

\* tc.CreateProcessID() called by the application
CallCreateProcessID(c) ==
    /\ ~exited
    /\ phase[c] = "live"
    /\ \E answer \in AuthorityAnswers(c, ProcessIDs) :
         LET r == CreateProcessID(containers[c].transactions, answer[1], answer[2]) IN
         /\ backend' = Record(backend, r.calls)
         /\ lastCall' = [op |-> "CreateProcessID", tc |-> c, args |-> <<>>, err |-> r.err, ret |-> r.processID, calls |-> r.calls]
    /\ UNCHANGED <<registeredDriver, loadedDriver, traceDriver, containers, phase, uuids, segmentIDs, exited, errorWrapper, added, frames, failed>>

\* ---------------------------------------------------------------- goroutines
\* Two goroutines share one container.  A broadcast is not atomic: between two
\* iterations of its range loop the other goroutine may run.  A frame is the
\* activation record of the broadcast a goroutine is in: pc is "idle" (no
\* call), "loop" (in the range loop) or "returned" (the result is with the
\* caller); order is the order in which this range visits the map.
Goroutines == {"g1", "g2"}

\* the broadcasts the goroutines call, and those that collect errors
ConcurrentOps == {"SegmentStart", "Info", "SetTrace"}
CollectingOps == {"SetProcessID", "SetTrace"}

\* the arguments they pass: a segment name, a message (never a nil pointer),
\* a process id, a trace id
ConcurrentArgs(op) ==
    CASE op = "SegmentStart" -> SegmentNames
      [] op = "Info"         -> Messages
      [] op = "SetProcessID" -> {"p-2"}
      [] op = "SetTrace"     -> {"t-1"}

NoFrame ==
    [pc |-> "idle", tc |-> 0, op |-> "", arg |-> "", id |-> NoSegment, order |-> <<>>,
     calls |-> <<>>, ew |-> <<>>, err |-> Nil]

\* a slip: ew is a package-level variable, shared by every call
PackageErrorWrapper(g) == "g1"

\* var ew ErrorWrapper: a local of the call, so the frame that holds the
\* ErrorWrapper of goroutine g's call is g's own
LocalErrorWrapper(g) == g

\* goroutine g calls tc.op(arg): the locals are initialised and the range
\* over tc.transactions begins
Go(g, c, op, arg) ==
    /\ ~exited
    /\ phase[c] = "live"
    /\ frames[g].pc = "idle"
    /\ op = "SegmentStart" => uuids < MaxSegments
    /\ \E order \in Perms(Keys(containers[c].transactions)) :
         frames' = [frames EXCEPT ![g] = [NoFrame EXCEPT !.pc = "loop", !.tc = c, !.op = op, !.arg = arg,
                                                         !.id = IF op = "SegmentStart" THEN NewString ELSE NoSegment,
                                                         !.order = order],
                                  ![LocalErrorWrapper(g)].ew = IF op \in CollectingOps THEN <<>> ELSE @]
    /\ uuids' = IF op = "SegmentStart" THEN uuids + 1 ELSE uuids
    /\ UNCHANGED <<registeredDriver, loadedDriver, traceDriver, backend, containers, phase, segmentIDs, exited,
                   lastCall, errorWrapper, added, failed>>

\* one iteration of the loop: the call on the next backend, which may fail,
\* and for SetProcessID and SetTrace the ew.Add of the wrapped error
Step(g) ==
    /\ ~exited
    /\ frames[g].pc = "loop"
    /\ Len(frames[g].calls) < Len(frames[g].order)
    /\ \E ok \in BOOLEAN :
         LET f == frames[g]
             driverName == f.order[Len(f.calls) + 1]
             call == Call(driverName, NoDriver, containers[f.tc].transactions[driverName], f.op, f.arg, f.id, ok)
         IN  /\ backend' = Record(backend, <<call>>)
             /\ frames' = [frames EXCEPT ![g].calls = Append(@, call),
                                      ![LocalErrorWrapper(g)].ew =
                                          IF ~ok /\ f.op \in CollectingOps
                                          THEN ErrorWrapperAdd(@, ErrorfWrap(driverName, f.op, BackendError(f.op)))
                                          ELSE @]
    /\ UNCHANGED <<registeredDriver, loadedDriver, traceDriver, containers, phase, uuids, segmentIDs, exited,
                   lastCall, errorWrapper, added, failed>>

\* the loop has visited every key: return segmentID, return ew.Error(), or
\* return nothing
Return(g) ==
    /\ ~exited
    /\ frames[g].pc = "loop"
    /\ Len(frames[g].calls) = Len(frames[g].order)
    /\ frames' = [frames EXCEPT ![g].pc = "returned",
                                ![g].err = IF frames[g].op \in CollectingOps
                                           THEN ErrorWrapperError(frames[LocalErrorWrapper(g)].ew)
                                           ELSE Nil]
    /\ segmentIDs' = IF frames[g].op = "SegmentStart"
                     THEN [segmentIDs EXCEPT ![frames[g].tc] = Append(@, frames[g].id)]
                     ELSE segmentIDs
    /\ UNCHANGED <<registeredDriver, loadedDriver, traceDriver, backend, containers, phase, uuids, exited,
                   lastCall, errorWrapper, added, failed>>

\* the caller has taken the result: the goroutine is free for its next call
Await(g) ==
    /\ ~exited
    /\ frames[g].pc = "returned"
    /\ frames' = [frames EXCEPT ![g] = NoFrame]
    /\ UNCHANGED <<registeredDriver, loadedDriver, traceDriver, backend, containers, phase, uuids, segmentIDs,
                   exited, lastCall, errorWrapper, added, failed>>

\* no goroutine is inside a call or holds a result
Joined == \A g \in Goroutines : frames[g].pc = "idle"

\* ---------------------------------------------------------------- specification
Init ==
    /\ registeredDriver = [n \in DriverNames |-> NoDriver]
    /\ loadedDriver = <<>>
    /\ traceDriver = ""
    /\ backend = [i \in TxIds |-> FreeTransaction]
    /\ containers = [c \in Slots |-> [transactions |-> EmptyTransactions]]
    /\ phase = [c \in Slots |-> "none"]
    /\ uuids = 0
    /\ segmentIDs = [c \in Slots |-> <<>>]
    /\ exited = FALSE
    /\ lastCall = NoCall
    /\ errorWrapper = <<>>
    /\ added = <<>>
    /\ frames = [g \in Goroutines |-> NoFrame]
    /\ failed = [c \in Slots |-> {}]

Next ==
    \/ Idle /\ \E n \in DriverNames, d \in Drivers : RegisterDriver(n, d)
    \/ Idle /\ \E l \in SeqsUpTo(DriverNames, MaxLoaded) : SetDriver(l)
    \/ Idle /\ \E n \in DriverNames : SetTraceDriver(n)
    \/ \E c \in Slots, name \in TransactionNames : Start(c, name)
    \/ \E c \in Slots, p \in ProcessIDs : CallSetProcessID(c, p)
    \/ \E c \in Slots, name \in SegmentNames : SegmentStart(c, name)
    \/ \E c \in Slots : Done(c)
    \/ \E c \in Slots : Drop(c)

Spec == Init /\ [][Next]_vars

\* The specifications below are of applications that have registered their
\* drivers while starting up (the teldrvr packages do so on import) and call
\* the configuration setters and the container operations from then on; a
\* segment id the application passes is one SegmentStart returned to it for
\* this container.
OpsInit ==
    /\ registeredDriver = [n \in DriverNames |-> "d1"]
    /\ loadedDriver = <<>>
    /\ traceDriver = ""
    /\ backend = [i \in TxIds |-> FreeTransaction]
    /\ containers = [c \in Slots |-> [transactions |-> EmptyTransactions]]
    /\ phase = [c \in Slots |-> "none"]
    /\ uuids = 0
    /\ segmentIDs = [c \in Slots |-> <<>>]
    /\ exited = FALSE
    /\ lastCall = NoCall
    /\ errorWrapper = <<>>
    /\ added = <<>>
    /\ frames = [g \in Goroutines |-> NoFrame]
    /\ failed = [c \in Slots |-> {}]

\* the driver lists of an application that activates no driver or one
SingleLists == {<<>>} \cup {<<n>> : n \in DriverNames}

\* an application that activates at most one driver and uses every operation
OpsNext ==
    \/ Idle /\ \E l \in SingleLists : SetDriver(l)
    \/ Idle /\ \E n \in DriverNames : SetTraceDriver(n)
    \/ \E c \in Slots, name \in TransactionNames : Start(c, name)
    \/ \E c \in Slots : StartTracing(c)
    \/ \E c \in Slots, name \in AttributeNames : AddTransactionAttribute(c, name)
    \/ \E c \in Slots, name \in SegmentNames : SegmentStart(c, name)
    \/ \E c \in Slots : \E id \in Range(segmentIDs[c]), name \in AttributeNames : AddSegmentAttribute(c, id, name)
    \/ \E c \in Slots : \E id \in Range(segmentIDs[c]) : SegmentEnd(c, id)
    \/ \E c \in Slots : \E id \in Range(segmentIDs[c]) \cup {NoSegment}, msg \in Messages \cup {NilPointer} : Info(c, id, msg)
    \/ \E c \in Slots : \E id \in Range(segmentIDs[c]) \cup {NoSegment}, err \in AppErrors \cup {NilErrorPointer} : Error(c, id, err)
    \/ \E c \in Slots : Done(c)
    \/ \E c \in Slots : Drop(c)

OpsSpec == OpsInit /\ [][OpsNext]_vars

\* an application that uses the segment and attribute operations
SegmentNext ==
    \/ Idle /\ \E l \in SeqsUpTo(DriverNames, MaxLoaded) : SetDriver(l)
    \/ Idle /\ \E n \in DriverNames : SetTraceDriver(n)
    \/ \E c \in Slots, name \in TransactionNames : Start(c, name)
    \/ \E c \in Slots, name \in AttributeNames : AddTransactionAttribute(c, name)
    \/ \E c \in Slots, name \in SegmentNames : SegmentStart(c, name)
    \/ \E c \in Slots : \E id \in Range(segmentIDs[c]), name \in AttributeNames : AddSegmentAttribute(c, id, name)
    \/ \E c \in Slots : \E id \in Range(segmentIDs[c]) : SegmentEnd(c, id)
    \/ \E c \in Slots : Done(c)
    \/ \E c \in Slots : Drop(c)

SegmentSpec == OpsInit /\ [][SegmentNext]_vars

\* an application that starts tracing on its containers
TraceNext ==
    \/ Idle /\ \E l \in SeqsUpTo(DriverNames, MaxLoaded) : SetDriver(l)
    \/ Idle /\ \E n \in DriverNames : SetTraceDriver(n)
    \/ \E c \in Slots, name \in TransactionNames : Start(c, name)
    \/ \E c \in Slots : StartTracing(c)
    \/ \E c \in Slots : Done(c)
    \/ \E c \in Slots : Drop(c)

TraceSpec == OpsInit /\ [][TraceNext]_vars

\* the values an application passes to Add: nil, and the errors the package
\* itself adds in SetProcessID and SetTrace
AddedErrors ==
    {Nil, ErrorfWrap("local", "SetTrace", BackendError("SetTrace")),
          ErrorfWrap("apm", "SetProcessID", BackendError("SetProcessID"))}

\* ew.Add(err) called by the application
CallAdd(e) ==
    /\ ~exited
    /\ Len(added) < MaxAdds
    /\ errorWrapper' = ErrorWrapperAdd(errorWrapper, e)
    /\ added' = Append(added, e)
    /\ lastCall' = [NoCall EXCEPT !.op = "ErrorWrapper.Add", !.args = <<e>>]
    /\ UNCHANGED <<registeredDriver, loadedDriver, traceDriver, backend, containers, phase, uuids, segmentIDs, exited, frames, failed>>

\* ew.Error() called by the application
CallError ==
    /\ ~exited
    /\ lastCall' = [NoCall EXCEPT !.op = "ErrorWrapper.Error", !.err = ErrorWrapperError(errorWrapper)]
    /\ UNCHANGED <<registeredDriver, loadedDriver, traceDriver, backend, containers, phase, uuids, segmentIDs, exited,
                   errorWrapper, added, frames, failed>>

\* an application that uses an ErrorWrapper of its own
ErrorWrapperNext ==
    \/ \E e \in AddedErrors : CallAdd(e)
    \/ CallError

ErrorWrapperSpec == Init /\ [][ErrorWrapperNext]_vars

\* the state after the start-up of an application that has set both drivers
\* active and "local" as the trace driver
ConfiguredInit ==
    /\ registeredDriver = [n \in DriverNames |-> "d1"]
    /\ loadedDriver = <<"local", "apm">>
    /\ traceDriver = "local"
    /\ backend = [i \in TxIds |-> FreeTransaction]
    /\ containers = [c \in Slots |-> [transactions |-> EmptyTransactions]]
    /\ phase = [c \in Slots |-> "none"]
    /\ uuids = 0
    /\ segmentIDs = [c \in Slots |-> <<>>]
    /\ exited = FALSE
    /\ lastCall = NoCall
    /\ errorWrapper = <<>>
    /\ added = <<>>
    /\ frames = [g \in Goroutines |-> NoFrame]
    /\ failed = [c \in Slots |-> {}]

\* an application whose two goroutines use the container of a Start that
\* returned no error; it calls Done after both have finished
ConcurrentNext ==
    \/ \E c \in Slots, name \in TransactionNames : Start(c, name)
    \/ /\ lastCall.op = "Start" /\ lastCall.err = Nil
       /\ \E g \in Goroutines, c \in Slots, op \in ConcurrentOps : \E arg \in ConcurrentArgs(op) : Go(g, c, op, arg)
    \/ \E g \in Goroutines : Step(g)
    \/ \E g \in Goroutines : Return(g)
    \/ \E g \in Goroutines : Await(g)
    \/ Joined /\ \E c \in Slots : Done(c)
    \/ \E c \in Slots : Drop(c)

ConcurrentSpec == ConfiguredInit /\ [][ConcurrentNext]_vars

\* an application, configured as above, that goes on using its container
\* whatever the backends answer
FailureNext ==
    \/ \E c \in Slots, name \in TransactionNames : Start(c, name)
    \/ \E c \in Slots, name \in AttributeNames : AddTransactionAttribute(c, name)
    \/ \E c \in Slots, name \in SegmentNames : SegmentStart(c, name)
    \/ \E c \in Slots : \E id \in Range(segmentIDs[c]) : SegmentEnd(c, id)
    \/ \E c \in Slots : \E id \in Range(segmentIDs[c]) \cup {NoSegment}, msg \in Messages : Info(c, id, msg)
    \/ \E c \in Slots, p \in ProcessIDs : CallSetProcessID(c, p)
    \/ \E c \in Slots, t \in TraceIDs : CallSetTrace(c, t)
    \/ \E c \in Slots : Done(c)
    \/ \E c \in Slots : Drop(c)

FailureSpec == ConfiguredInit /\ [][FailureNext]_vars

\* an application that holds up to two containers at a time, each in a
\* variable of its own, and registers drivers and sets the configuration
\* whenever it likes; it activates no driver or one
TwoSlots == {1, 2}

IsolationInit ==
    /\ registeredDriver = [n \in DriverNames |-> "d1"]
    /\ loadedDriver = <<>>
    /\ traceDriver = ""
    /\ backend = [i \in TxIds |-> FreeTransaction]
    /\ containers = [c \in TwoSlots |-> [transactions |-> EmptyTransactions]]
    /\ phase = [c \in TwoSlots |-> "none"]
    /\ uuids = 0
    /\ segmentIDs = [c \in TwoSlots |-> <<>>]
    /\ exited = FALSE
    /\ lastCall = NoCall
    /\ errorWrapper = <<>>
    /\ added = <<>>
    /\ frames = [g \in Goroutines |-> NoFrame]
    /\ failed = [c \in TwoSlots |-> {}]

IsolationNext ==
    \/ \E n \in DriverNames, d \in Drivers : RegisterDriver(n, d)
    \/ \E l \in SingleLists : SetDriver(l)
    \/ \E n \in DriverNames : SetTraceDriver(n)
    \/ \E c \in TwoSlots, name \in TransactionNames : Start(c, name)
    \/ \E c \in TwoSlots, name \in AttributeNames : AddTransactionAttribute(c, name)
    \/ \E c \in TwoSlots : Done(c)
    \/ \E c \in TwoSlots : Drop(c)

IsolationSpec == IsolationInit /\ [][IsolationNext]_vars

\* an application that sets its active drivers while it holds no container,
\* and changes the trace driver whenever it likes
RetargetNext ==
    \/ Idle /\ \E l \in SeqsUpTo(DriverNames, MaxLoaded) : SetDriver(l)
    \/ \E n \in DriverNames : SetTraceDriver(n)
    \/ \E c \in Slots, name \in TransactionNames : Start(c, name)
    \/ \E c \in Slots : Trace(c)
    \/ \E c \in Slots : CallCreateProcessID(c)
    \/ \E c \in Slots : StartTracing(c)
    \/ \E c \in Slots : Done(c)
    \/ \E c \in Slots : Drop(c)

RetargetSpec == OpsInit /\ [][RetargetNext]_vars

\* ---------------------------------------------------------------- properties

\* the backend calls of the last call: their positions, by operation and by target
CallsOp(op) == {i \in DOMAIN lastCall.calls : lastCall.calls[i].op = op}
CallsOn(op, tx) == {i \in CallsOp(op) : lastCall.calls[i].tx = tx}

\* the last call was a Start, and Start ran with the present configuration
AfterStart == lastCall.op = "Start"
\* ... and it returned to its caller (the process did not end inside getDriver)
StartReturned == AfterStart /\ ~exited
\* the map of the container the last call was about
LastTransactions == containers[lastCall.tc].transactions

AllRegistered == \A n \in Range(loadedDriver) : registeredDriver[n] # NoDriver
\* every driver of the list was asked for a transaction and returned one
AllInitialised ==
    /\ Cardinality(CallsOp("InitializeTransaction")) = Len(loadedDriver)
    /\ \A i \in CallsOp("InitializeTransaction") : lastCall.calls[i].ok

\* C1: when the active driver list is not empty, contains the trace driver,
\* and all its drivers are registered and initialise without error, Start
\* returns a container whose map has exactly one transaction for each active
\* driver name (a transaction that driver created for this Start) and no
\* entry for any other name.
C1_StartHoldsActiveDrivers ==
    (/\ AfterStart
     /\ loadedDriver # <<>>
     /\ traceDriver \in Range(loadedDriver)
     /\ AllRegistered
     /\ AllInitialised)
    => /\ StartReturned
       /\ phase[lastCall.tc] = "live"
       /\ Keys(LastTransactions) = Range(loadedDriver)
       /\ \A n \in Keys(LastTransactions) :
            /\ backend[LastTransactions[n]].name = n
            /\ backend[LastTransactions[n]].slot = lastCall.tc
       /\ \A n, m \in Keys(LastTransactions) : LastTransactions[n] = LastTransactions[m] => n = m

C1_Witness ==
    /\ AfterStart /\ AllRegistered /\ AllInitialised
    /\ traceDriver \in Range(loadedDriver)
    /\ Cardinality(Range(loadedDriver)) = 2
    /\ Cardinality(Keys(LastTransactions)) = 2

\* the last Start stopped at the trace driver lookup of CreateProcessID
IsTraceDriverNotRegistered(e) ==
    /\ e.type = "ErrorProcessID"
    /\ e.err[1] = ErrTraceDriverNotRegistered(traceDriver)

\* the operations Start may call on a backend transaction after its first loop
IdentifierAndLifecycleOps == {"CreateProcessID", "SetProcessID", "Start", "Done", "Erase"}

NoIdentifierOrLifecycleCall == \A op \in IdentifierAndLifecycleOps : CallsOp(op) = {}

\* the transactions created for the container of the last call
CreatedFor(c) == {i \in TxIds : backend[i].slot = c}

\* C2 as stated: when the trace driver is absent from the active driver list
\* (whose drivers are all registered and initialise), Start returns the
\* 'trace driver not registered' error and a container that holds no live
\* backend transaction.
C2_Original ==
    (/\ AfterStart /\ AllRegistered /\ AllInitialised
     /\ traceDriver \notin Range(loadedDriver))
    => /\ StartReturned
       /\ IsTraceDriverNotRegistered(lastCall.err)
       /\ Keys(LastTransactions) = {}

\* C2 (amended): when the trace driver is absent from the active driver list
\* (whose drivers are all registered and initialise), Start returns an
\* ErrorProcessID carrying the 'trace driver not registered' error and makes no
\* identifier, lifecycle or release call on any backend; the container it
\* returns with the error holds the initialised, unreleased transaction of every
\* listed driver.
C2_TraceDriverAbsent ==
    (/\ AfterStart /\ AllRegistered /\ AllInitialised
     /\ traceDriver \notin Range(loadedDriver))
    => /\ StartReturned
       /\ IsTraceDriverNotRegistered(lastCall.err)
       /\ NoIdentifierOrLifecycleCall
       /\ Keys(LastTransactions) = Range(loadedDriver)
       /\ \A n \in Keys(LastTransactions) :
            /\ backend[LastTransactions[n]].processID = NoProcessID
            /\ backend[LastTransactions[n]].count = [op \in CountedOps |-> 0]

C2_Witness ==
    /\ AfterStart /\ AllRegistered /\ AllInitialised
    /\ traceDriver \in DriverNames
    /\ traceDriver \notin Range(loadedDriver)
    /\ loadedDriver # <<>>
    /\ IsTraceDriverNotRegistered(lastCall.err)

\* the process id the trace driver's backend minted during the last Start
Minted == {lastCall.calls[i].arg : i \in {j \in CallsOp("CreateProcessID") :
              lastCall.calls[j].ok /\ lastCall.calls[j].tx = Lookup(LastTransactions, traceDriver)}}

\* C3: after Start returns without error, every backend transaction of the
\* container has received through SetProcessID the one process id that the
\* trace driver's backend minted with CreateProcessID during this Start; and at
\* all times all backends of one container hold the same process id (the last
\* one each received).
C3_SameProcessID ==
    /\ (StartReturned /\ lastCall.err = Nil) =>
          /\ Cardinality(CallsOp("CreateProcessID")) = 1
          /\ Cardinality(Minted) = 1
          /\ \A n \in Keys(LastTransactions) :
               /\ Cardinality(CallsOn("SetProcessID", LastTransactions[n])) = 1
               /\ \A i \in CallsOn("SetProcessID", LastTransactions[n]) : {lastCall.calls[i].arg} = Minted
               /\ {backend[LastTransactions[n]].processID} = Minted
    /\ \A c \in Slots : \A n, m \in Keys(containers[c].transactions) :
          backend[containers[c].transactions[n]].processID = backend[containers[c].transactions[m]].processID

C3_Witness ==
    /\ StartReturned /\ lastCall.err = Nil
    /\ Cardinality(Keys(LastTransactions)) = 2
    /\ \A n \in Keys(LastTransactions) : backend[LastTransactions[n]].processID = "p-2"

\* the drivers whose backend returned an error from SetProcessID during the last call
FailedSetProcessID == {lastCall.calls[i].driver : i \in {j \in CallsOp("SetProcessID") : ~lastCall.calls[j].ok}}

\* C4 as stated: if k of the n backends fail SetProcessID during Start, the
\* error Start returns decomposes into exactly those k failures, each naming
\* its driver, none lost and none twice; and the container holds all n backends.
C4_Original ==
    (StartReturned /\ FailedSetProcessID # {}) =>
        LET parts == Decompose(lastCall.err) IN
        /\ Len(parts) = Cardinality(FailedSetProcessID)
        /\ {parts[i].msg[2] : i \in DOMAIN parts} = FailedSetProcessID
        /\ \A i \in DOMAIN parts : parts[i].msg[3] = "SetProcessID"
        /\ Keys(LastTransactions) = Range(loadedDriver)

\* C5: one call of Done calls Done once and Erase once on every backend of the
\* container, whatever any Done returned, the Erase of a backend after its own
\* Done; it calls nothing else, and no backend has then been erased twice.
C5_DoneErasesEveryBackend ==
    lastCall.op = "Done" =>
        /\ \A n \in Keys(LastTransactions) :
             LET t == LastTransactions[n] IN
             /\ Cardinality(CallsOn("Done", t)) = 1
             /\ Cardinality(CallsOn("Erase", t)) = 1
             /\ \A i \in CallsOn("Done", t), j \in CallsOn("Erase", t) : i < j
             /\ backend[t].count["Done"] = 1
             /\ backend[t].count["Erase"] = 1
        /\ \A i \in DOMAIN lastCall.calls :
             /\ lastCall.calls[i].op \in {"Done", "Erase"}
             /\ \E n \in Keys(LastTransactions) : lastCall.calls[i].tx = LastTransactions[n]

\* a Done on two backends, of which the one called first failed
C5_Witness ==
    /\ lastCall.op = "Done"
    /\ Cardinality(Keys(LastTransactions)) = 2
    /\ ~lastCall.calls[1].ok
    /\ lastCall.calls[3].ok

\* a driver's InitializeTransaction returned an error during the last Start
InitFailed == AfterStart /\ \E i \in CallsOp("InitializeTransaction") : ~lastCall.calls[i].ok

\* C6 as stated: when a driver's initialisation fails, Start returns an error
\* naming the failing driver, and every transaction an earlier driver had
\* started has been released (Erase) when the error reaches the caller.
C6_Original ==
    InitFailed =>
        /\ StartReturned
        /\ lastCall.err.msg[2] = lastCall.calls[Len(lastCall.calls)].driver
        /\ \A t \in CreatedFor(lastCall.tc) : backend[t].count["Erase"] >= 1

\* C6 (amended): when a driver's initialisation fails, Start stops there and
\* returns an error naming the failing driver; it calls Erase on none of the
\* transactions earlier drivers had started: they are returned, unreleased, in
\* the container that comes with the error (the latest one of each name).
C6_InitFailureKeepsStarted ==
    InitFailed =>
        LET last == Len(lastCall.calls) IN
        /\ StartReturned
        /\ phase[lastCall.tc] = "live"
        /\ ~lastCall.calls[last].ok
        /\ lastCall.calls[last].driver = loadedDriver[last]
        /\ lastCall.err.type = "wrapError"
        /\ lastCall.err.msg[2] = loadedDriver[last]
        /\ \A i \in 1..(last - 1) : lastCall.calls[i].op = "InitializeTransaction" /\ lastCall.calls[i].ok
        /\ CallsOp("Erase") = {}
        /\ \A t \in CreatedFor(lastCall.tc) : backend[t].count["Erase"] = 0
        /\ Cardinality(CreatedFor(lastCall.tc)) = last - 1
        /\ Keys(LastTransactions) = {loadedDriver[i] : i \in 1..(last - 1)}
        /\ \A n \in Keys(LastTransactions) :
             /\ LastTransactions[n] \in CreatedFor(lastCall.tc)
             /\ backend[LastTransactions[n]].name = n

\* the second driver of the list fails after the first one has started
C6_Witness ==
    /\ InitFailed
    /\ Len(lastCall.calls) = 2
    /\ Cardinality(Keys(LastTransactions)) = 1

\* C7 as stated: when SetProcessID fails on a backend other than the trace
\* driver's during Start, SetProcessID is still attempted on every backend,
\* Start(transactionName) is still called once on every backend, and the
\* container is returned for later use.
C7_Original ==
    (StartReturned /\ FailedSetProcessID # {} /\ traceDriver \notin FailedSetProcessID) =>
        /\ phase[lastCall.tc] = "live"
        /\ \A n \in Keys(LastTransactions) :
             /\ Cardinality(CallsOn("SetProcessID", LastTransactions[n])) = 1
             /\ Cardinality(CallsOn("Start", LastTransactions[n])) = 1
             /\ backend[LastTransactions[n]].count["Start"] = 1

NoDuplicates(seq) == \A i, j \in DOMAIN seq : seq[i] = seq[j] => i = j

\* C8: the segment ids SegmentStart returns on one container are pairwise
\* different, also for two calls with the same segment name; the id returned is
\* the one passed to the backends.
C8_SegmentIDsDistinct ==
    /\ \A c \in Slots : NoDuplicates(segmentIDs[c])
    /\ lastCall.op = "SegmentStart" =>
          /\ lastCall.ret = segmentIDs[lastCall.tc][Len(segmentIDs[lastCall.tc])]
          /\ \A i \in DOMAIN lastCall.calls : lastCall.calls[i].id = lastCall.ret

\* two SegmentStart calls with the same name on one container
C8_Witness ==
    /\ lastCall.op = "SegmentStart"
    /\ Len(segmentIDs[lastCall.tc]) = 2
    /\ Cardinality(Keys(LastTransactions)) = 2
    /\ \A i \in DOMAIN lastCall.calls : lastCall.calls[i].arg = "charge-card"

\* the position in the active driver list of the first name the registry lacks
FirstMiss ==
    CHOOSE i \in DOMAIN loadedDriver :
        /\ registeredDriver[loadedDriver[i]] = NoDriver
        /\ \A j \in 1..(i - 1) : registeredDriver[loadedDriver[j]] # NoDriver

\* the last Start looked up a name the registry lacks
LookupMissed ==
    /\ AfterStart
    /\ ~AllRegistered
    /\ \A i \in CallsOp("InitializeTransaction") : lastCall.calls[i].ok

\* C9: when Start looks up a name of the active driver list that the registry
\* lacks, it ends there (the process exits): no container is returned, the
\* drivers before that name have been initialised and no later one, and no
\* identifier or lifecycle call has been made on any backend.
C9_LookupMissStopsStart ==
    LookupMissed =>
        /\ exited
        /\ phase[lastCall.tc] = "none"
        /\ Keys(LastTransactions) = {}
        /\ lastCall.err = Nil
        /\ Len(lastCall.calls) = FirstMiss - 1
        /\ \A i \in DOMAIN lastCall.calls :
             /\ lastCall.calls[i].op = "InitializeTransaction"
             /\ lastCall.calls[i].driver = loadedDriver[i]
        /\ NoIdentifierOrLifecycleCall
        /\ \A t \in TxIds : backend[t].processID = NoProcessID /\ backend[t].count = [op \in CountedOps |-> 0]

\* the miss is on the second name, after the first driver has been initialised
C9_Witness ==
    /\ LookupMissed
    /\ exited
    /\ Len(loadedDriver) = 2
    /\ Len(lastCall.calls) = 1

\* why the last Start ended without a usable result
FatalOutcome ==
    IF LookupMissed THEN "driver not registered"
    ELSE IF InitFailed THEN "driver failed to start"
    ELSE IF AfterStart /\ (Lookup(LastTransactions, traceDriver) = NoTransaction
                           \/ \E i \in CallsOp("CreateProcessID") : ~lastCall.calls[i].ok)
    THEN "trace authority unreachable"
    ELSE "none"

\* what the caller of Start can tell from the error value it receives
Condition(e) ==
    IF e.type = "ErrorProcessID" THEN "trace authority unreachable"
    ELSE IF e.type = "wrapError" THEN "driver failed to start"
    ELSE IF e.type = "nil" THEN "none"
    ELSE "driver not registered"

\* C10 as stated: each fatal outcome of Start reaches the caller of Start as an
\* error value that tells it apart from the other two.
C10_Original ==
    (AfterStart /\ FatalOutcome # "none") =>
        /\ StartReturned
        /\ Condition(lastCall.err) = FatalOutcome

\* C10 (amended): 'driver failed to start' and 'trace authority unreachable'
\* reach the caller of Start as error values that can be told apart (a wrapped
\* error naming the driver, and an ErrorProcessID); 'driver not registered'
\* reaches the caller as no value: getDriver ends the process with log.Fatalf.
C10_FatalOutcomes ==
    (AfterStart /\ FatalOutcome # "none") =>
        IF FatalOutcome = "driver not registered"
        THEN exited /\ lastCall.err = Nil
        ELSE StartReturned /\ Condition(lastCall.err) = FatalOutcome

\* the trace driver's backend failed to mint the process id
C10_Witness ==
    /\ StartReturned
    /\ FatalOutcome = "trace authority unreachable"
    /\ CallsOp("CreateProcessID") # {}
    /\ lastCall.err.type = "ErrorProcessID"

\* the drivers whose backend returned an error from SetTrace during the last call
FailedSetTrace == {lastCall.calls[i].driver : i \in {j \in CallsOp("SetTrace") : ~lastCall.calls[j].ok}}

\* the trace driver has a backend in the container of the last call
AuthorityPresent == Lookup(LastTransactions, traceDriver) # NoTransaction

SegmentOps == {"SegmentStart", "AddSegmentAttribute", "SegmentEnd", "AddTransactionAttribute"}

\* what a backend must be passed by the last call: the string argument and the segment id
Passed ==
    CASE lastCall.op = "SegmentStart"            -> [arg |-> lastCall.args[1], id |-> lastCall.ret]
      [] lastCall.op = "AddSegmentAttribute"     -> [arg |-> lastCall.args[2], id |-> lastCall.args[1]]
      [] lastCall.op = "SegmentEnd"              -> [arg |-> "", id |-> lastCall.args[1]]
      [] lastCall.op = "AddTransactionAttribute" -> [arg |-> lastCall.args[1], id |-> NoSegment]

\* C12: SegmentStart, AddSegmentAttribute, SegmentEnd and
\* AddTransactionAttribute call their backend operation exactly once on every
\* backend of the container and on nothing else, with the caller's arguments
\* (SegmentStart: with the freshly generated id it returns), whichever backends
\* fail; no error reaches the caller and the container stays as it was.
C12_BroadcastReachesAll ==
    lastCall.op \in SegmentOps =>
        /\ ~exited
        /\ phase[lastCall.tc] = "live"
        /\ lastCall.err = Nil
        /\ Len(lastCall.calls) = Cardinality(Keys(LastTransactions))
        /\ \A n \in Keys(LastTransactions) :
             Cardinality(CallsOn(lastCall.op, LastTransactions[n])) = 1
        /\ \A i \in DOMAIN lastCall.calls :
             /\ lastCall.calls[i].arg = Passed.arg
             /\ lastCall.calls[i].id = Passed.id
        /\ lastCall.op = "SegmentStart" =>
             /\ lastCall.ret = segmentIDs[lastCall.tc][Len(segmentIDs[lastCall.tc])]
             /\ \A i \in 1..(Len(segmentIDs[lastCall.tc]) - 1) : segmentIDs[lastCall.tc][i] # lastCall.ret

\* SegmentEnd on two backends: the backend called first fails, the other is
\* still called, with the same segment id
C12_Witness ==
    /\ lastCall.op = "SegmentEnd"
    /\ Len(lastCall.calls) = 2
    /\ ~lastCall.calls[1].ok
    /\ lastCall.calls[2].ok
    /\ lastCall.calls[2].id = lastCall.args[1]

\* C13 as stated: Info and Error deliver the message (Error: the text of the
\* error) with the given segment id to every backend exactly once, return to
\* the caller and report nothing, for every input the caller passes.
C13_Original ==
    lastCall.op \in {"Info", "Error"} =>
        /\ ~exited
        /\ lastCall.err = Nil
        /\ Len(lastCall.calls) = Cardinality(Keys(LastTransactions))
        /\ \A n \in Keys(LastTransactions) :
             /\ Cardinality(CallsOn(lastCall.op, LastTransactions[n])) = 1
             /\ \A i \in CallsOn(lastCall.op, LastTransactions[n]) :
                  /\ lastCall.calls[i].id = lastCall.args[1]
                  /\ lastCall.calls[i].arg = IF lastCall.op = "Info" THEN lastCall.args[2]
                                            ELSE ErrorString(lastCall.args[2].msg)

\* the errors added to the ErrorWrapper so far, nil values left out
AddedSoFar == SelectSeq(added, LAMBDA e : e.type # "nil")

\* C14: after any sequence of Add calls, Error() returns nil exactly when no
\* error (no non-nil value) was added, and otherwise one joined error whose
\* list is the added errors, each once, in the order added.
C14_ErrorWrapperJoins ==
    lastCall.op = "ErrorWrapper.Error" =>
        /\ (lastCall.err = Nil) = (AddedSoFar = <<>>)
        /\ AddedSoFar # <<>> =>
             /\ lastCall.err.type = "joinError"
             /\ lastCall.err.wraps = AddedSoFar

\* Error() after three Add calls: two different errors with a nil between them
C14_Witness ==
    /\ lastCall.op = "ErrorWrapper.Error"
    /\ Len(added) = 3
    /\ added[2] = Nil
    /\ added[1] # Nil /\ added[3] # Nil /\ added[1] # added[3]
    /\ Len(lastCall.err.wraps) = 2

\* the Start that returned the container of the last call had failed: it
\* returned before its last loop, so no backend of the container was started
\* (a Start that succeeds starts every backend, and there is at least one)
StartHadFailed == \A n \in Keys(LastTransactions) : backend[LastTransactions[n]].count["Start"] = 0

\* C15 as stated: Done on the container returned by a Start that failed calls
\* Done and Erase exactly once on exactly the backend transactions that were
\* initialised before the failure, and returns.
C15_Original ==
    (lastCall.op = "Done" /\ StartHadFailed) =>
        /\ ~exited
        /\ \A t \in CreatedFor(lastCall.tc) :
             /\ Cardinality(CallsOn("Done", t)) = 1
             /\ Cardinality(CallsOn("Erase", t)) = 1
             /\ backend[t].count["Done"] = 1
             /\ backend[t].count["Erase"] = 1
        /\ \A i \in DOMAIN lastCall.calls : lastCall.calls[i].tx \in CreatedFor(lastCall.tc)

\* the container operations that return no error value
SilentOps == SegmentOps \cup {"Info", "Error", "Done"}

\* C16 as stated: with an empty active driver list Start yields a container
\* without backends, calls no backend and reports no failure.
C16_Original ==
    (AfterStart /\ loadedDriver = <<>>) =>
        /\ StartReturned
        /\ Keys(LastTransactions) = {}
        /\ lastCall.calls = <<>>
        /\ lastCall.err = Nil

\* C16 (amended): with an empty active driver list Start calls no driver and no
\* backend and returns a container without backends, together with the 'trace
\* driver not registered' error (an ErrorProcessID); every later segment,
\* attribute, log and Done call on that container calls no backend, reports
\* nothing and returns, also for a nil message or error; StartTracing on it
\* returns the 'trace driver not registered' error.
C16_EmptyListNoBackend ==
    /\ (AfterStart /\ loadedDriver = <<>>) =>
          /\ StartReturned
          /\ phase[lastCall.tc] = "live"
          /\ Keys(LastTransactions) = {}
          /\ CreatedFor(lastCall.tc) = {}
          /\ lastCall.calls = <<>>
          /\ IsTraceDriverNotRegistered(lastCall.err)
    /\ (lastCall.op \in SilentOps /\ loadedDriver = <<>>) =>
          /\ ~exited
          /\ Keys(LastTransactions) = {}
          /\ lastCall.calls = <<>>
          /\ lastCall.err = Nil
    /\ (lastCall.op = "StartTracing" /\ loadedDriver = <<>>) =>
          /\ lastCall.calls = <<>>
          /\ lastCall.err = ErrTraceDriverNotRegistered(traceDriver)

\* Error with a nil error on the container of an empty driver list
C16_Witness ==
    /\ lastCall.op = "Error"
    /\ loadedDriver = <<>>
    /\ lastCall.args[2] = Nil
    /\ ~exited
    /\ Keys(LastTransactions) = {}

\* C17: every RegisterDriver(name, driver) leaves the registry mapping name to
\* driver and every other name to what it was mapped to before; no other
\* operation changes the registry; and Start initialises the transaction of a
\* name with the driver the registry maps it to (hence the one registered last).
C17_LastWriteWins ==
    [][/\ lastCall'.op = "RegisterDriver" =>
            /\ registeredDriver'[lastCall'.args[1]] = lastCall'.args[2]
            /\ \A m \in DriverNames \ {lastCall'.args[1]} : registeredDriver'[m] = registeredDriver[m]
       /\ lastCall'.op # "RegisterDriver" => registeredDriver' = registeredDriver
       /\ lastCall'.op = "Start" =>
            \A i \in DOMAIN lastCall'.calls :
                lastCall'.calls[i].op = "InitializeTransaction" =>
                    /\ lastCall'.calls[i].impl # NoDriver
                    /\ lastCall'.calls[i].impl = registeredDriver[lastCall'.calls[i].driver]
                    /\ lastCall'.calls[i].arg = lastCall'.args[1]]_vars

\* a Start that initialised local with d2 and apm with d1
C17_Witness ==
    /\ AfterStart
    /\ loadedDriver = <<"local", "apm">>
    /\ Len(lastCall.calls) >= 2
    /\ lastCall.calls[1].impl = "d2" /\ registeredDriver["local"] = "d2"
    /\ lastCall.calls[2].impl = "d1" /\ registeredDriver["apm"] = "d1"

\* within the last Start, every Start(name) lifecycle call came after a
\* SetProcessID call on each backend of the container
PropagationPrecedesLifecycle ==
    \A i \in CallsOp("Start") : \A n \in Keys(LastTransactions) :
        \E j \in CallsOn("SetProcessID", LastTransactions[n]) : j < i

\* C18 as stated: no backend receives Start(name), and no segment call is
\* issued on the container, before SetProcessID has been attempted on every
\* backend; Start does not return before that.
C18_Original ==
    /\ AfterStart => PropagationPrecedesLifecycle
    /\ StartReturned =>
          \A n \in Keys(LastTransactions) : CallsOn("SetProcessID", LastTransactions[n]) # {}
    /\ lastCall.op = "SegmentStart" =>
          \A n \in Keys(LastTransactions) : backend[LastTransactions[n]].processID # NoProcessID

\* C18 (amended): within Start no backend receives Start(name) before
\* SetProcessID has been attempted on every backend, and a Start that returns
\* without error has attempted SetProcessID once and then Start(name) once on
\* every backend.  A Start that returns before propagation returns an error and
\* has started no backend, but it still returns the container: a segment call
\* issued on it reaches backends that have received no process id, which
\* happens only on a container whose Start failed.
C18_PropagationBeforeLifecycle ==
    /\ AfterStart => PropagationPrecedesLifecycle
    /\ (StartReturned /\ lastCall.err = Nil) =>
          \A n \in Keys(LastTransactions) :
              /\ Cardinality(CallsOn("SetProcessID", LastTransactions[n])) = 1
              /\ Cardinality(CallsOn("Start", LastTransactions[n])) = 1
    /\ (StartReturned /\ \E n \in Keys(LastTransactions) : CallsOn("SetProcessID", LastTransactions[n]) = {}) =>
          /\ lastCall.err # Nil
          /\ CallsOp("SetProcessID") = {}
          /\ CallsOp("Start") = {}
    /\ lastCall.op = "SegmentStart" =>
          \A n \in Keys(LastTransactions) :
              backend[LastTransactions[n]].processID = NoProcessID =>
                  /\ StartHadFailed
                  /\ CallsOn("SegmentStart", LastTransactions[n]) # {}

\* a segment call on two backends that have received no process id
C18_Witness ==
    /\ lastCall.op = "SegmentStart"
    /\ Cardinality(Keys(LastTransactions)) = 2
    /\ Len(lastCall.calls) = 2
    /\ \A n \in Keys(LastTransactions) : backend[LastTransactions[n]].processID = NoProcessID

\* C19: Start aborts at the first driver, in list order, whose initialisation
\* fails: the drivers before it were initialised in list order, no later one
\* is, no CreateProcessID, SetProcessID or Start call is made on any backend,
\* and the map of the returned container has exactly the names of the drivers
\* attempted before the failing one, each with an untouched transaction.
C19_AbortsAtFirstInitFailure ==
    InitFailed =>
        LET last == Len(lastCall.calls) IN
        /\ StartReturned
        /\ last <= Len(loadedDriver)
        /\ \A i \in 1..last :
             /\ lastCall.calls[i].op = "InitializeTransaction"
             /\ lastCall.calls[i].driver = loadedDriver[i]
             /\ lastCall.calls[i].ok = (i < last)
        /\ \A op \in {"CreateProcessID", "SetProcessID", "Start"} : CallsOp(op) = {}
        /\ Keys(LastTransactions) = {lastCall.calls[i].driver : i \in {j \in 1..last : lastCall.calls[j].ok}}
        /\ \A n \in Keys(LastTransactions) :
             /\ backend[LastTransactions[n]].name = n
             /\ backend[LastTransactions[n]].processID = NoProcessID
             /\ backend[LastTransactions[n]].count = [op \in CountedOps |-> 0]
        /\ lastCall.err.msg[2] = loadedDriver[last]

\* the first of two drivers fails: the second one is never initialised
C19_Witness ==
    /\ InitFailed
    /\ Len(loadedDriver) = 2
    /\ loadedDriver[1] # loadedDriver[2]
    /\ Len(lastCall.calls) = 1
    /\ Keys(LastTransactions) = {}

\* the trace driver's backend returned an error from CreateProcessID during the last Start
MintFailed == AfterStart /\ \E i \in CallsOp("CreateProcessID") : ~lastCall.calls[i].ok

\* C20: when the trace driver's backend fails to mint the process id, Start
\* returns an error (an ErrorProcessID around the error that names the trace
\* driver) and has called SetProcessID and Start(name) on no backend;
\* CreateProcessID was its last call, made once, on the trace driver's backend.
C20_MintFailureStopsStart ==
    MintFailed =>
        /\ StartReturned
        /\ lastCall.err.type = "ErrorProcessID"
        /\ lastCall.err.err[1].type = "wrapError"
        /\ lastCall.err.err[1].msg[2] = traceDriver
        /\ CallsOp("CreateProcessID") = {Len(lastCall.calls)}
        /\ lastCall.calls[Len(lastCall.calls)].tx = Lookup(LastTransactions, traceDriver)
        /\ CallsOp("SetProcessID") = {}
        /\ CallsOp("Start") = {}
        /\ \A n \in Keys(LastTransactions) :
             /\ backend[LastTransactions[n]].processID = NoProcessID
             /\ backend[LastTransactions[n]].count["Start"] = 0

\* the mint fails on a container of two backends
C20_Witness ==
    /\ MintFailed
    /\ Cardinality(Keys(LastTransactions)) = 2
    /\ lastCall.err # Nil

\* the errors a call has collected from its own backend calls, in call order
OwnErrors(f) ==
    LET failures == SelectSeq(f.calls, LAMBDA call : ~call.ok)
    IN  [i \in 1..Len(failures) |-> ErrorfWrap(failures[i].driver, f.op, BackendError(f.op))]

\* the backend calls of a frame that went to transaction tx
FrameCallsOn(f, tx) == {i \in DOMAIN f.calls : f.calls[i].tx = tx}

\* every call in a frame is the frame's operation with the frame's arguments
OwnCalls(f) ==
    \A i \in DOMAIN f.calls : f.calls[i].op = f.op /\ f.calls[i].arg = f.arg /\ f.calls[i].id = f.id

\* a frame under any interleaving: no backend is called twice, a call that
\* has returned has called every backend of the container once, and what a
\* collecting call holds and returns are the errors of its own backend calls
FrameSafe(f) ==
    LET transactions == containers[f.tc].transactions IN
    /\ OwnCalls(f)
    /\ \A n \in Keys(transactions) : Cardinality(FrameCallsOn(f, transactions[n])) <= 1
    /\ \A i \in DOMAIN f.calls : f.calls[i].tx \in {transactions[n] : n \in Keys(transactions)}
    /\ f.pc = "returned" =>
         /\ Len(f.calls) = Cardinality(Keys(transactions))
         /\ \A n \in Keys(transactions) : Cardinality(FrameCallsOn(f, transactions[n])) = 1
         /\ f.err = IF f.op \in CollectingOps THEN Join(OwnErrors(f)) ELSE Nil
    /\ f.op \in CollectingOps => f.ew = OwnErrors(f)

\* C21: two goroutines that call SegmentStart, Info and SetTrace on the same
\* container can be interleaved at every loop iteration: each call reaches
\* every backend of the container exactly once, with its own arguments; no
\* step of a broadcast writes the container's map, the registry or the
\* configuration; and the ErrorWrapper of a SetTrace call holds, and the call
\* returns, the errors of its own backend calls only.
C21_InterleavingSafe ==
    [][ /\ \A g \in Goroutines : frames'[g].pc # "idle" => FrameSafe(frames[g])'
        /\ frames' # frames =>
             /\ containers' = containers
             /\ registeredDriver' = registeredDriver
             /\ loadedDriver' = loadedDriver
             /\ traceDriver' = traceDriver ]_vars

\* both goroutines are inside SetTrace on a container of two backends, each
\* has called one backend, the call of g1 failed and the call of g2 did not
C21_Witness ==
    /\ \A g \in Goroutines : /\ frames[g].pc = "loop"
                             /\ frames[g].op = "SetTrace"
                             /\ Len(frames[g].order) = 2
                             /\ Len(frames[g].calls) = 1
    /\ ~frames["g1"].calls[1].ok
    /\ frames["g2"].calls[1].ok
    /\ frames["g1"].ew # <<>>
    /\ frames["g2"].ew = <<>>

\* the container operations an application calls between Start and Done
PostStartOps == {"AddTransactionAttribute", "SegmentStart", "SegmentEnd", "Info", "SetProcessID", "SetTrace"}

\* the last call made exactly one backend call, of its own operation, on every
\* backend of its container
DeliveredToAll ==
    /\ Len(lastCall.calls) = Cardinality(Keys(LastTransactions))
    /\ \A n \in Keys(LastTransactions) : Cardinality(CallsOn(lastCall.op, LastTransactions[n])) = 1

\* the map holds the Transactions the drivers created for this container
HoldsCreated(c) ==
    \A n \in Keys(containers[c].transactions) :
        /\ backend[containers[c].transactions[n]].slot = c
        /\ backend[containers[c].transactions[n]].name = n

\* C22: whatever subset of backend calls fails in AddTransactionAttribute,
\* SegmentStart, SegmentEnd, Info, SetProcessID and SetTrace, the call returns,
\* leaves the container's map and the application's hold on it as they were,
\* and is delivered once to every backend of the container, those that
\* failed in earlier calls included.
C22_FailureLeavesUsable ==
    [][ lastCall'.op \in PostStartOps =>
          /\ ~exited'
          /\ containers' = containers
          /\ phase' = phase
          /\ HoldsCreated(lastCall.tc)'
          /\ DeliveredToAll' ]_vars

\* SetTrace has failed on both backends of a container, and a later Info has
\* reached both
C22_Witness ==
    /\ lastCall.op = "Info"
    /\ Cardinality(Keys(LastTransactions)) = 2
    /\ failed[lastCall.tc] = Keys(LastTransactions)
    /\ DeliveredToAll
    /\ \A i \in DOMAIN lastCall.calls : lastCall.calls[i].ok

\* the last call was a Start that returned a nil error
StartSucceeded == StartReturned /\ lastCall.err = Nil

\* transaction t is a value of the container's map
Held(c, t) == \E n \in Keys(containers[c].transactions) : containers[c].transactions[n] = t

\* C23 as stated: every Transaction a driver created during a Start that
\* succeeded is in the container's map when Start returns, and has been
\* erased exactly once when the following Done returns, for every active
\* driver list.
C23_Original ==
    /\ StartSucceeded => \A t \in CreatedFor(lastCall.tc) : Held(lastCall.tc, t)
    /\ (lastCall.op = "Done" /\ ~StartHadFailed) =>
           \A t \in CreatedFor(lastCall.tc) :
               /\ Held(lastCall.tc, t)
               /\ backend[t].count["Erase"] = 1

\* the Transactions container c holds
HeldBy(c) == {containers[c].transactions[n] : n \in Keys(containers[c].transactions)}

\* C24: while the application holds a container, no step changes its map:
\* not RegisterDriver, SetDriver or SetTraceDriver, not a Start that creates
\* another container, not an operation on either container; a call on one
\* container leaves the Transactions of the other as they were, and every
\* backend call of a container operation goes to a Transaction created for
\* that container.
C24_ContainersIsolated ==
    [][ /\ \A c \in TwoSlots :
             phase[c] = "live" =>
                 /\ containers'[c] = containers[c]
                 /\ lastCall'.tc # c => \A t \in HeldBy(c) : backend'[t] = backend[t]
        /\ \A i \in DOMAIN lastCall'.calls :
             lastCall'.calls[i].tx # NoTransaction => backend'[lastCall'.calls[i].tx].slot = lastCall'.tc ]_vars

\* the application holds two containers with different backends, neither of
\* which is the active driver list any more, and has just used the second
C24_Witness ==
    /\ phase = [c \in TwoSlots |-> "live"]
    /\ Keys(containers[1].transactions) = {"local"}
    /\ Keys(containers[2].transactions) = {"apm"}
    /\ loadedDriver = <<>>
    /\ registeredDriver["local"] = "d2"
    /\ lastCall.op = "AddTransactionAttribute"
    /\ lastCall.tc = 2
    /\ Len(lastCall.calls) = 1

\* the operations that consult one backend, and the backend call each makes first
AuthorityOps == {"Trace", "CreateProcessID", "StartTracing"}
AuthorityCall(op) == IF op = "StartTracing" THEN "CreateTrace" ELSE op

\* C25: Trace, CreateProcessID and StartTracing look the trace driver up by
\* the name that is set when they are called.  When the container has no
\* backend under that name they return the "trace driver not registered"
\* error, naming it, and call no backend; otherwise their first backend call
\* is on the backend under that name, and Trace and CreateProcessID call no
\* other.
C25_AuthorityAtCallTime ==
    (lastCall.op \in AuthorityOps /\ ~exited) =>
        IF Lookup(LastTransactions, traceDriver) = NoTransaction
        THEN /\ lastCall.err = ErrTraceDriverNotRegistered(traceDriver)
             /\ lastCall.calls = <<>>
             /\ lastCall.ret = ""
        ELSE /\ lastCall.calls # <<>>
             /\ lastCall.calls[1].op = AuthorityCall(lastCall.op)
             /\ lastCall.calls[1].driver = traceDriver
             /\ lastCall.calls[1].tx = LastTransactions[traceDriver]
             /\ lastCall.err # ErrTraceDriverNotRegistered(traceDriver)
             /\ lastCall.op # "StartTracing" => Len(lastCall.calls) = 1

\* a container that Start built and started with "local" as its only backend
\* and trace driver; the trace driver has since been set to "apm", and Trace
\* has returned the error
C25_Witness ==
    /\ lastCall.op = "Trace"
    /\ Keys(LastTransactions) = {"local"}
    /\ backend[LastTransactions["local"]].count["Start"] = 1
    /\ traceDriver = "apm"
    /\ lastCall.err = ErrTraceDriverNotRegistered("apm")
    /\ lastCall.calls = <<>>

\* the errors tc.SetTrace wraps for the SetTrace calls of the last call that
\* failed, in call order
SetTraceFailures ==
    LET failures == SelectSeq(lastCall.calls, LAMBDA call : call.op = "SetTrace" /\ ~call.ok)
    IN  [i \in 1..Len(failures) |-> ErrorfWrap(failures[i].driver, "SetTrace", BackendError("SetTrace"))]

\* C26: StartTracing on a container that has the trace driver's backend calls
\* CreateTrace on it, once and first.  When that succeeds, every call after it
\* is a SetTrace with the minted id, one on each backend of the container
\* whether or not an earlier one failed, and StartTracing returns the minted
\* id with the join of the wrapped errors of exactly the SetTrace calls that
\* failed, in call order, which is nil when none failed.  When CreateTrace
\* fails, StartTracing calls no SetTrace and returns the wrapped CreateTrace
\* error.
C26_StartTracingMintsAndPropagates ==
    (lastCall.op = "StartTracing" /\ AuthorityPresent) =>
        LET create == lastCall.calls[1]
            rest == SubSeq(lastCall.calls, 2, Len(lastCall.calls))
        IN  /\ create.op = "CreateTrace"
            /\ create.tx = LastTransactions[traceDriver]
            /\ \A i \in DOMAIN rest : rest[i].op = "SetTrace" /\ rest[i].arg = create.arg
            /\ IF create.ok
               THEN /\ {rest[i].tx : i \in DOMAIN rest} = HeldBy(lastCall.tc)
                    /\ Len(rest) = Cardinality(HeldBy(lastCall.tc))
                    /\ lastCall.ret = create.arg
                    /\ lastCall.ret \in TraceIDs
                    /\ lastCall.err = Join(SetTraceFailures)
               ELSE /\ rest = <<>>
                    /\ lastCall.err = ErrorfWrap(traceDriver, "CreateTrace", BackendError("CreateTrace"))

\* StartTracing on two backends, both of whose SetTrace fail: the minted id is
\* returned with a join of two errors
C26_Witness ==
    /\ lastCall.op = "StartTracing"
    /\ lastCall.ret = "t-1"
    /\ Len(lastCall.calls) = 3
    /\ ~lastCall.calls[2].ok
    /\ ~lastCall.calls[3].ok
    /\ lastCall.err.type = "joinError"
    /\ Len(lastCall.err.wraps) = 2

====
